---------------------------- MODULE Spec2Model ----------------------------
(***************************************************************************)
(* A model of packages/discord.js/src/structures/Interaction.js: the       *)
(* Interaction constructor, the channel / guild getters and the            *)
(* classification and guild-context predicates, together with the client   *)
(* caches (users, guilds and their members, channels) they read and write. *)
(*                                                                         *)
(* JavaScript values are written as strings: identifiers as they are,      *)
(* numbers as their numerals ("2"), undefined and null as the two          *)
(* sentinels below.  A payload is a TLA+ record whose DOMAIN is the set of *)
(* properties the JSON object carries, so an absent property is a key that *)
(* is not in the DOMAIN.                                                   *)
(***************************************************************************)
EXTENDS Integers, Sequences, FiniteSets, TLC

VARIABLES users, guilds, channels, records, op, ret

vars == <<users, guilds, channels, records, op, ret>>

Undefined == "undefined"
Null == "null"

(***************************************************************************)
(* Bounds of the model.  MaxRecords: the records held at once where the    *)
(* user cache is studied (SpecUsers).  MaxLive: the records held at once   *)
(* in the other specifications, where one record is handled at a time      *)
(* while the caches change around it.                                      *)
(***************************************************************************)
MaxRecords == 2
MaxLive == 1

UserIds == {"U1", "U2"}
UserNames == {"a", "b"}
GuildIds == {"G1", "G2"}
ChannelIds == {"C1", "C2"}

(***************************************************************************)
(* The enums of discord-api-types/v9.  A numeric TypeScript enum is one    *)
(* object holding both directions: E[2] is the name, E.Name is the number. *)
(***************************************************************************)
InteractionType ==
    [k \in {"1", "2", "3", "4", "5", "Ping", "ApplicationCommand", "MessageComponent",
            "ApplicationCommandAutocomplete", "ModalSubmit"} |->
        CASE k = "1" -> "Ping"
          [] k = "2" -> "ApplicationCommand"
          [] k = "3" -> "MessageComponent"
          [] k = "4" -> "ApplicationCommandAutocomplete"
          [] k = "5" -> "ModalSubmit"
          [] k = "Ping" -> "1"
          [] k = "ApplicationCommand" -> "2"
          [] k = "MessageComponent" -> "3"
          [] k = "ApplicationCommandAutocomplete" -> "4"
          [] k = "ModalSubmit" -> "5"]

ApplicationCommandType ==
    [k \in {"1", "2", "3", "ChatInput", "User", "Message"} |->
        CASE k = "1" -> "ChatInput"
          [] k = "2" -> "User"
          [] k = "3" -> "Message"
          [] k = "ChatInput" -> "1"
          [] k = "User" -> "2"
          [] k = "Message" -> "3"]

ComponentType ==
    [k \in {"1", "2", "3", "4", "ActionRow", "Button", "SelectMenu", "TextInput"} |->
        CASE k = "1" -> "ActionRow"
          [] k = "2" -> "Button"
          [] k = "3" -> "SelectMenu"
          [] k = "4" -> "TextInput"
          [] k = "ActionRow" -> "1"
          [] k = "Button" -> "2"
          [] k = "SelectMenu" -> "3"
          [] k = "TextInput" -> "4"]

\* E[k]: a property read; a key the object does not have reads undefined.
EnumGet(E, k) == IF k \in DOMAIN E THEN E[k] ELSE Undefined

\* data.k is neither undefined nor null
Has(data, k) == k \in DOMAIN data

\* data.k for a property holding a string or a number
Get(data, k) == IF Has(data, k) THEN data[k] ELSE Undefined

\* data.k ?? null
OrNull(data, k) == IF Has(data, k) THEN data[k] ELSE Null

\* typeof v, for the values a discriminant field holds
TypeOf(v) == IF v = Undefined THEN "undefined" ELSE "string"

\* Boolean(v) for a value that is null, undefined or a string
Truthy(v) == v \notin {Null, Undefined, ""}

\* null in a field that otherwise holds an object
NullMember == [kind |-> "null"]
NullPermissions == [kind |-> "null"]
NoRet == [of |-> 0, value |-> Null]


(***************************************************************************)
(* The caches of the client.                                               *)
(*   users    : client.users.cache, the entries in insertion order; a User *)
(*              object is identified by its position                       *)
(*   guilds   : client.guilds.cache, guild id -> that guild's              *)
(*              members.cache (the user ids it holds an entry for)         *)
(*   channels : client.channels.cache (the ids it holds an entry for)      *)
(***************************************************************************)

\* UserManager#_add: the entry cached under data.id is patched and returned,
\* otherwise a new entry is created and cached.
UsersAdd(cache, data) ==
    IF \E i \in DOMAIN cache : cache[i].id = data.id
    THEN LET i == CHOOSE j \in DOMAIN cache : cache[j].id = data.id
         IN [cache |-> [cache EXCEPT ![i] = data], ref |-> i]
    ELSE [cache |-> Append(cache, data), ref |-> Len(cache) + 1]

\* GuildMemberManager#_add: the entry is keyed by data.user.id
MembersAdd(cache, g, data) ==
    [cache |-> [cache EXCEPT ![g] = @ \cup {data.user.id}],
     ref |-> [kind |-> "GuildMember", guild |-> g, user |-> data.user.id]]

\* new Permissions(bits).freeze(): the bit field resolved from a numeral
PermissionsResolvable(bits) == bits \in {"0", "8"}

NewPermissions(bits) == [kind |-> "Permissions", bitfield |-> bits, frozen |-> TRUE]

(***************************************************************************)
(* The getters: plain lookups in the caches.                               *)
(***************************************************************************)

\* this.client.channels.cache.get(this.channelId) ?? null
channel(r) == IF r.channelId \in channels THEN r.channelId ELSE Null

\* this.client.guilds.cache.get(this.guildId) ?? null
guild(r) == IF r.guildId \in DOMAIN guilds THEN r.guildId ELSE Null

(***************************************************************************)
(* The constructor, line by line.                                          *)
(***************************************************************************)

\* data.user ?? data.member?.user ?? {}: a payload without a user goes through
UserPayloadDefaulting(data) ==
    IF Has(data, "user") THEN [threw |-> FALSE, present |-> TRUE, value |-> data.user]
    ELSE IF Has(data, "member") /\ Has(data.member, "user")
    THEN [threw |-> FALSE, present |-> TRUE, value |-> data.member.user]
    ELSE [threw |-> FALSE, present |-> TRUE, value |-> [id |-> Undefined, username |-> Undefined]]

\* data.member.user ?? data.user: the member's user preferred
UserPayloadMemberFirst(data) ==
    IF Has(data, "member") /\ Has(data.member, "user")
    THEN [threw |-> FALSE, present |-> TRUE, value |-> data.member.user]
    ELSE IF Has(data, "user") THEN [threw |-> FALSE, present |-> TRUE, value |-> data.user]
    ELSE IF ~Has(data, "member") THEN [threw |-> TRUE, present |-> FALSE]
    ELSE [threw |-> FALSE, present |-> FALSE]

\* data.user ?? data.member.user; reading .user of an undefined data.member
\* throws, and a member without a user yields undefined (present = FALSE)
UserPayload(data) ==
    IF Has(data, "user") THEN [threw |-> FALSE, present |-> TRUE, value |-> data.user]
    ELSE IF ~Has(data, "member") THEN [threw |-> TRUE, present |-> FALSE]
    ELSE IF Has(data.member, "user")
    THEN [threw |-> FALSE, present |-> TRUE, value |-> data.member.user]
    ELSE [threw |-> FALSE, present |-> FALSE]

\* data.member ?? null: the raw data kept whatever the guild cache holds
MemberAlwaysRaw(data, g) ==
    IF ~Has(data, "member") THEN [threw |-> FALSE, cache |-> guilds, value |-> NullMember]
    ELSE [threw |-> FALSE, cache |-> guilds,
          value |-> [kind |-> "APIGuildMember", data |-> data.member]]

\* data.member ? this.guild?.members._add(data.member) ?? data.member : null,
\* where g is this.guild: [threw, cache (the guilds afterwards), value]
MemberOf(data, g) ==
    IF ~Has(data, "member") THEN [threw |-> FALSE, cache |-> guilds, value |-> NullMember]
    ELSE IF g = Null
    THEN [threw |-> FALSE, cache |-> guilds,
          value |-> [kind |-> "APIGuildMember", data |-> data.member]]
    ELSE IF ~Has(data.member, "user") THEN [threw |-> TRUE, cache |-> guilds, value |-> NullMember]
    ELSE LET a == MembersAdd(guilds, g, data.member)
         IN [threw |-> FALSE, cache |-> a.cache, value |-> a.ref]

\* data.member?.permissions ? new Permissions(data.member.permissions).freeze() : null
MemberPermissions(data) ==
    IF Has(data, "member") /\ Has(data.member, "permissions")
    THEN NewPermissions(data.member.permissions)
    ELSE NullPermissions

PermissionsThrow(data) ==
    /\ Has(data, "member")
    /\ Has(data.member, "permissions")
    /\ ~PermissionsResolvable(data.member.permissions)

\* The fields of the object the constructor returns.  targetId, targetType
\* and componentType are not assigned by this class: they read undefined
\* until a subclass constructor sets them.
NewRecord(data, userRef, member) ==
    [type |-> EnumGet(InteractionType, Get(data, "type")),
     id |-> Get(data, "id"),
     token |-> Get(data, "token"),
     applicationId |-> Get(data, "application_id"),
     channelId |-> OrNull(data, "channel_id"),
     guildId |-> OrNull(data, "guild_id"),
     user |-> userRef,
     member |-> member,
     version |-> Get(data, "version"),
     memberPermissions |-> MemberPermissions(data),
     locale |-> Get(data, "locale"),
     guildLocale |-> OrNull(data, "guild_locale"),
     targetId |-> Undefined,
     targetType |-> Undefined,
     componentType |-> Undefined]

\* new Interaction(client, data).  A throw leaves no object behind, but the
\* cache writes made before it stay.  op names how the call ended.
Construct(data) ==
    LET up == UserPayload(data)
        g == IF OrNull(data, "guild_id") \in DOMAIN guilds
             THEN OrNull(data, "guild_id") ELSE Null
    IN
    /\ ret' = NoRet
    /\ UNCHANGED channels
    /\ IF up.threw
       THEN /\ op' = "TypeError: data.member.user"
            /\ UNCHANGED <<users, guilds, records>>
       ELSE IF ~up.present
       THEN /\ op' = "Error: users._add"
            /\ UNCHANGED <<users, guilds, records>>
       ELSE LET ua == UsersAdd(users, up.value)
                m == MemberOf(data, g)
            IN /\ users' = ua.cache
               /\ guilds' = m.cache
               /\ IF m.threw
                  THEN /\ op' = "Error: members._add"
                       /\ UNCHANGED records
                  ELSE IF PermissionsThrow(data)
                  THEN /\ op' = "Error: Permissions"
                       /\ UNCHANGED records
                  ELSE /\ op' = "construct"
                       /\ records' = Append(records, NewRecord(data, ua.ref, m.value))

(***************************************************************************)
(* The guild-context predicates.                                           *)
(***************************************************************************)

\* inGuild without the test of guildId
inGuildMemberOnly(r) == r.member # NullMember

\* Boolean(this.guildId && this.member)
inGuild(r) == Truthy(r.guildId) /\ r.member # NullMember

\* Boolean(this.guild && this.member)
inCachedGuild(r) == Truthy(guild(r)) /\ r.member # NullMember

\* inRawGuild without the test of the guild cache
inRawGuildAnyGuild(r) == Truthy(r.guildId) /\ r.member # NullMember

\* Boolean(this.guildId && !this.guild && this.member)
inRawGuild(r) == Truthy(r.guildId) /\ ~Truthy(guild(r)) /\ r.member # NullMember

(***************************************************************************)
(* The classification predicates.                                          *)
(***************************************************************************)

isCommand(r) ==
    EnumGet(InteractionType, r.type) = InteractionType["ApplicationCommand"]

isChatInputCommand(r) ==
    /\ EnumGet(InteractionType, r.type) = InteractionType["ApplicationCommand"]
    /\ TypeOf(r.targetId) = "undefined"

\* isContextMenuCommand with the test of targetId the wrong way round
isContextMenuCommandNoTarget(r) ==
    /\ EnumGet(InteractionType, r.type) = InteractionType["ApplicationCommand"]
    /\ TypeOf(r.targetId) = "undefined"

isContextMenuCommand(r) ==
    /\ EnumGet(InteractionType, r.type) = InteractionType["ApplicationCommand"]
    /\ TypeOf(r.targetId) # "undefined"

isUserContextMenuCommand(r) ==
    /\ isContextMenuCommand(r)
    /\ EnumGet(ApplicationCommandType, r.targetType) = ApplicationCommandType["User"]

isMessageContextMenuCommand(r) ==
    /\ isContextMenuCommand(r)
    /\ EnumGet(ApplicationCommandType, r.targetType) = ApplicationCommandType["Message"]

\* isAutocomplete comparing with the type of a command
isAutocompleteAsCommand(r) ==
    EnumGet(InteractionType, r.type) = InteractionType["ApplicationCommand"]

isAutocomplete(r) ==
    EnumGet(InteractionType, r.type) = InteractionType["ApplicationCommandAutocomplete"]

isMessageComponent(r) ==
    EnumGet(InteractionType, r.type) = InteractionType["MessageComponent"]

isButton(r) ==
    /\ EnumGet(InteractionType, r.type) = InteractionType["MessageComponent"]
    /\ EnumGet(ComponentType, r.componentType) = ComponentType["Button"]

isSelectMenu(r) ==
    /\ EnumGet(InteractionType, r.type) = InteractionType["MessageComponent"]
    /\ EnumGet(ComponentType, r.componentType) = ComponentType["SelectMenu"]

(***************************************************************************)
(* Reads of the two getters on a live record.  ret holds the record read   *)
(* and the value returned.                                                 *)
(***************************************************************************)

\* A channel getter that caches a placeholder for an id it does not find
ReadChannelEnsure(i) ==
    /\ op' = "channel"
    /\ ret' = [of |-> i, value |-> records[i].channelId]
    /\ channels' = IF records[i].channelId = Null THEN channels
                   ELSE channels \cup {records[i].channelId}
    /\ UNCHANGED <<users, guilds, records>>

ReadChannel(i) ==
    /\ op' = "channel"
    /\ ret' = [of |-> i, value |-> channel(records[i])]
    /\ UNCHANGED <<users, guilds, channels, records>>

ReadGuild(i) ==
    /\ op' = "guild"
    /\ ret' = [of |-> i, value |-> guild(records[i])]
    /\ UNCHANGED <<users, guilds, channels, records>>

(***************************************************************************)
(* The rest of the client: guilds and channels enter and leave the caches  *)
(* as the gateway announces them, and the constructor of a subclass sets   *)
(* the discriminant fields of its variant.                                 *)
(***************************************************************************)

GuildCreate(g) ==
    /\ g \notin DOMAIN guilds
    /\ guilds' = [x \in DOMAIN guilds \cup {g} |-> IF x = g THEN {} ELSE guilds[x]]
    /\ op' = "cache"
    /\ ret' = NoRet
    /\ UNCHANGED <<users, channels, records>>

GuildDelete(g) ==
    /\ g \in DOMAIN guilds
    /\ guilds' = [x \in DOMAIN guilds \ {g} |-> guilds[x]]
    /\ op' = "cache"
    /\ ret' = NoRet
    /\ UNCHANGED <<users, channels, records>>

ChannelCreate(c) ==
    /\ c \notin channels
    /\ channels' = channels \cup {c}
    /\ op' = "cache"
    /\ ret' = NoRet
    /\ UNCHANGED <<users, guilds, records>>

ChannelDelete(c) ==
    /\ c \in channels
    /\ channels' = channels \ {c}
    /\ op' = "cache"
    /\ ret' = NoRet
    /\ UNCHANGED <<users, guilds, records>>

Specialize(i, targetId, targetType, componentType) ==
    /\ records[i].targetId = Undefined
    /\ records[i].targetType = Undefined
    /\ records[i].componentType = Undefined
    /\ <<targetId, targetType, componentType>> # <<Undefined, Undefined, Undefined>>
    /\ records' = [records EXCEPT ![i] = [@ EXCEPT !.targetId = targetId,
                                                   !.targetType = targetType,
                                                   !.componentType = componentType]]
    /\ op' = "specialize"
    /\ ret' = NoRet
    /\ UNCHANGED <<users, guilds, channels>>

(***************************************************************************)
(* The payloads the gateway delivers, as far as the model draws them.      *)
(***************************************************************************)

Restrict(f, S) == [k \in S |-> f[k]]

Required == {"id", "type", "application_id", "token", "version"}

BasePayload ==
    [id |-> "I1", type |-> "2", application_id |-> "A1", token |-> "T1",
     version |-> "1", locale |-> "en-US"]

\* {} and every {k: v}, v in S
Optional(k, S) == {<< >>} \cup {[x \in {k} |-> v] : v \in S}

UserObjects(names) == [id : UserIds, username : names]

MemberObjects(names, bits) ==
    {u @@ p : u \in Optional("user", UserObjects(names)), p \in Optional("permissions", bits)}

\* The guild context and the member data vary.
ContextPayloads ==
    {BasePayload @@ u @@ m @@ g :
        u \in Optional("user", UserObjects({"a"})),
        m \in Optional("member", MemberObjects({"a"}, {"8"})),
        g \in Optional("guild_id", GuildIds)}

\* The guild and the channel the record points at vary.
GetterPayloads ==
    {BasePayload @@ [user |-> [id |-> "U1", username |-> "a"]] @@ m @@ g @@ c :
        m \in Optional("member", {[user |-> [id |-> "U1", username |-> "a"]]}),
        g \in Optional("guild_id", GuildIds),
        c \in Optional("channel_id", ChannelIds)}

\* The user data varies, and the permissions of a member do not resolve;
\* there is no guild or channel context.
UserPayloads ==
    {BasePayload @@ u @@ m :
        u \in Optional("user", UserObjects(UserNames)),
        m \in Optional("member", MemberObjects(UserNames, {"x"}))}

\* Every type the platform defines, and one it does not.
TypePayloads ==
    {[BasePayload EXCEPT !.type = t] @@ [user |-> [id |-> "U1", username |-> "a"]] :
        t \in {"1", "2", "3", "4", "5", "9"}}

\* Every subset of the required fields, with and without the optional ids.
FieldPayloads ==
    {Restrict(BasePayload, S \cup {"locale"}) @@ [user |-> [id |-> "U1", username |-> "a"]]
        @@ g @@ c :
        S \in SUBSET Required,
        g \in Optional("guild_id", {"G1"}),
        c \in Optional("channel_id", {"C1"})}

TargetIds == {Undefined, "T1"}
TargetTypes == {Undefined, "ChatInput", "User", "Message"}
ComponentTypes == {Undefined, "ActionRow", "Button", "SelectMenu"}

(***************************************************************************)
(* The specifications.                                                     *)
(***************************************************************************)

Init ==
    /\ users = << >>
    /\ guilds = << >>
    /\ channels = {}
    /\ records = << >>
    /\ op = "init"
    /\ ret = NoRet

\* Records built while guilds come and go.
Next ==
    \/ \E data \in ContextPayloads : Len(records) < MaxLive /\ Construct(data)
    \/ \E g \in GuildIds : GuildCreate(g)
    \/ \E g \in GuildIds : GuildDelete(g)

Spec == Init /\ [][Next]_vars

\* The getters read while guilds and channels come and go.
NextGetters ==
    \/ \E data \in GetterPayloads : Len(records) < MaxLive /\ Construct(data)
    \/ \E g \in GuildIds : GuildCreate(g)
    \/ \E g \in GuildIds : GuildDelete(g)
    \/ \E c \in ChannelIds : ChannelCreate(c)
    \/ \E c \in ChannelIds : ChannelDelete(c)
    \/ \E i \in DOMAIN records : ReadChannel(i)
    \/ \E i \in DOMAIN records : ReadGuild(i)

SpecGetters == Init /\ [][NextGetters]_vars

\* Records built from every shape of user data.
NextUsers ==
    \E data \in UserPayloads : Len(records) < MaxRecords /\ Construct(data)

SpecUsers == Init /\ [][NextUsers]_vars

\* Records of every type, specialised by their subclass.
NextClassify ==
    \/ \E data \in TypePayloads : Len(records) < MaxLive /\ Construct(data)
    \/ \E i \in DOMAIN records, tid \in TargetIds, tt \in TargetTypes, ct \in ComponentTypes :
          Specialize(i, tid, tt, ct)

SpecClassify == Init /\ [][NextClassify]_vars

\* Records built from payloads that lack required fields.
NextFields ==
    \E data \in FieldPayloads : Len(records) < MaxLive /\ Construct(data)

SpecFields == Init /\ [][NextFields]_vars

(***************************************************************************)
(* Properties.                                                             *)
(***************************************************************************)

Live == {records[i] : i \in DOMAIN records}

\* new Interaction(client, data) returned a record, with at most n alive
Built(data, n) == Len(records) < n /\ op' = "construct" /\ Construct(data)

\* new Interaction(client, data) ran, with at most n alive
Called(data, n) == Len(records) < n /\ Construct(data)

Last(s) == s[Len(s)]

\* C1 as stated: no two of inGuild(), inCachedGuild() and inRawGuild() are
\* true of the same record at the same time.
C1_PairwiseExclusive ==
    \A r \in Live :
        /\ ~(inGuild(r) /\ inCachedGuild(r))
        /\ ~(inGuild(r) /\ inRawGuild(r))
        /\ ~(inCachedGuild(r) /\ inRawGuild(r))

\* C1 amended: inCachedGuild() and inRawGuild() are never both true of a
\* record, and each of them implies inGuild().
C1_CachedRawExclusive ==
    \A r \in Live :
        /\ ~(inCachedGuild(r) /\ inRawGuild(r))
        /\ inCachedGuild(r) => inGuild(r)
        /\ inRawGuild(r) => inGuild(r)

C1_Witness ==
    \E r \in Live : inCachedGuild(r) /\ inGuild(r) /\ ~inRawGuild(r)

\* C2: for every record and every state of the guild cache, one of inGuild(),
\* inCachedGuild(), inRawGuild() is true exactly when guildId is not null
\* and member is not null.
C2_Disjunction ==
    \A r \in Live :
        (inGuild(r) \/ inCachedGuild(r) \/ inRawGuild(r))
            <=> (r.guildId # Null /\ r.member # NullMember)

C2_Witness ==
    \E r \in Live :
        /\ r.guildId = Null
        /\ r.member # NullMember
        /\ ~inGuild(r) /\ ~inCachedGuild(r) /\ ~inRawGuild(r)

IsOneOf3(a, b, c) == (a /\ ~b /\ ~c) \/ (~a /\ b /\ ~c) \/ (~a /\ ~b /\ c)

ValidTypes ==
    {"ApplicationCommand", "ApplicationCommandAutocomplete", "MessageComponent",
     "ModalSubmit", "Ping"}

\* C3 as stated: for every record of a valid type, exactly one of
\* isCommand(), isAutocomplete(), isMessageComponent() is true.
C3_ExactlyOne ==
    \A r \in Live :
        r.type \in ValidTypes
            => IsOneOf3(isCommand(r), isAutocomplete(r), isMessageComponent(r))

\* C3 amended: at most one of isCommand(), isAutocomplete(),
\* isMessageComponent() is true of a record; exactly one is when its type is
\* ApplicationCommand, ApplicationCommandAutocomplete or MessageComponent,
\* and none is when its type is ModalSubmit or Ping.
C3_AtMostOne ==
    \A r \in Live :
        /\ ~(isCommand(r) /\ isAutocomplete(r))
        /\ ~(isCommand(r) /\ isMessageComponent(r))
        /\ ~(isAutocomplete(r) /\ isMessageComponent(r))
        /\ r.type \in {"ApplicationCommand", "ApplicationCommandAutocomplete",
                       "MessageComponent"}
              => IsOneOf3(isCommand(r), isAutocomplete(r), isMessageComponent(r))
        /\ r.type \in {"ModalSubmit", "Ping"}
              => ~isCommand(r) /\ ~isAutocomplete(r) /\ ~isMessageComponent(r)

C3_Witness ==
    \E r \in Live :
        /\ r.type = "Ping"
        /\ ~isCommand(r) /\ ~isAutocomplete(r) /\ ~isMessageComponent(r)

\* C4: whatever targetId, targetType and componentType hold, the chat-input
\* and context-menu predicates are never both true and exactly one of them
\* is true of a command; the user and message context-menu predicates are
\* never both true and each implies isContextMenuCommand(); isButton() and
\* isSelectMenu() are never both true and each implies isMessageComponent().
C4_SubFamilies ==
    \A r \in Live :
        /\ ~(isChatInputCommand(r) /\ isContextMenuCommand(r))
        /\ isCommand(r) => (isChatInputCommand(r) \/ isContextMenuCommand(r))
        /\ ~(isUserContextMenuCommand(r) /\ isMessageContextMenuCommand(r))
        /\ isUserContextMenuCommand(r) => isContextMenuCommand(r)
        /\ isMessageContextMenuCommand(r) => isContextMenuCommand(r)
        /\ ~(isButton(r) /\ isSelectMenu(r))
        /\ isButton(r) => isMessageComponent(r)
        /\ isSelectMenu(r) => isMessageComponent(r)

C4_Witness ==
    \E r \in Live :
        /\ isCommand(r)
        /\ isContextMenuCommand(r)
        /\ isUserContextMenuCommand(r)
        /\ r.componentType = "Button"
        /\ ~isButton(r)

\* the payload has neither a top-level user nor a member.user
NoUser(data) ==
    /\ ~Has(data, "user")
    /\ ~Has(data, "member") \/ ~Has(data.member, "user")

\* C5: constructing from a payload that has neither user nor member.user
\* throws, and no record comes back.
C5_NoUserFails ==
    [][\A data \in UserPayloads :
          (NoUser(data) /\ Called(data, MaxRecords))
              => /\ op' \in {"TypeError: data.member.user", "Error: users._add"}
                 /\ records' = records]_vars

C5_Witness ==
    /\ op = "TypeError: data.member.user"
    /\ records = << >>
    /\ users = << >>

\* C6 as stated: constructing from a payload that supplies a user but lacks
\* one of id, type, application_id, token, version throws and yields no
\* record.
C6_MissingFieldFails ==
    [][\A data \in FieldPayloads :
          (Required \ DOMAIN data # {} /\ Called(data, MaxLive))
              => /\ op' # "construct"
                 /\ records' = records]_vars

\* the user object the record is to hold: the top-level one when there is one
ExpectedUser(data) == IF Has(data, "user") THEN data.user ELSE data.member.user

\* C7: the user cache holds at most one entry per id; the user of every
\* record is an entry of the cache; a construction leaves every entry where
\* it is, under its id, adds at most one, and gives the record the entry of
\* the id of data.user, or of data.member.user when there is no data.user,
\* updated from that data.
C7_UserCache ==
    /\ [](/\ \A i, j \in DOMAIN users : users[i].id = users[j].id => i = j
          /\ \A r \in Live : r.user \in DOMAIN users)
    /\ [][\A data \in UserPayloads :
            Built(data, MaxRecords)
                => /\ users'[Last(records').user] = ExpectedUser(data)
                   /\ Len(users') \in {Len(users), Len(users) + 1}
                   /\ \A i \in DOMAIN users : users'[i].id = users[i].id]_vars

C7_Witness ==
    /\ Len(records) = 2
    /\ records[1].user = records[2].user
    /\ Len(users) = 1
    /\ op = "construct"

\* C8: the record's member is decided by the guild cache as the constructor
\* runs: with member data and the guild of guild_id cached, the member is put
\* into that guild's members cache and the record holds that entry; with
\* member data and no such guild cached, the record holds the raw data and
\* no cache of members changes; without member data the member is null and
\* no cache of members changes.
C8_MemberByResidency ==
    [][\A data \in ContextPayloads :
          Built(data, MaxLive)
              => LET r == Last(records')
                     gid == OrNull(data, "guild_id")
                 IN IF ~Has(data, "member")
                    THEN r.member = NullMember /\ guilds' = guilds
                    ELSE IF gid \in DOMAIN guilds
                    THEN /\ r.member = [kind |-> "GuildMember", guild |-> gid,
                                        user |-> data.member.user.id]
                         /\ DOMAIN guilds' = DOMAIN guilds
                         /\ guilds'[gid] = guilds[gid] \cup {data.member.user.id}
                         /\ \A g \in DOMAIN guilds \ {gid} : guilds'[g] = guilds[g]
                    ELSE /\ r.member = [kind |-> "APIGuildMember", data |-> data.member]
                         /\ guilds' = guilds]_vars

C8_Witness ==
    /\ op = "construct"
    /\ \E r \in Live :
          /\ r.member.kind = "GuildMember"
          /\ r.guildId \in DOMAIN guilds
          /\ r.member.guild = r.guildId
          /\ r.member.user \in guilds[r.guildId]

\* C9: a read of the channel or guild getter changes no cache and no record,
\* and returns the entry cached under channelId / guildId, or null when
\* there is none.
C9_GettersPure ==
    /\ [](/\ op = "channel"
             => ret.value = IF records[ret.of].channelId \in channels
                            THEN records[ret.of].channelId ELSE Null
          /\ op = "guild"
             => ret.value = IF records[ret.of].guildId \in DOMAIN guilds
                            THEN records[ret.of].guildId ELSE Null)
    /\ [][op' \in {"channel", "guild"}
            => UNCHANGED <<users, guilds, channels, records>>]_vars

C9_Witness ==
    /\ op = "channel"
    /\ records[ret.of].channelId # Null
    /\ records[ret.of].channelId \notin channels
    /\ ret.value = Null

\* C10 as stated: through guilds entering and leaving the cache after the
\* record was built, inCachedGuild() is true only of a record whose member
\* is the entry of that guild's members cache, and inRawGuild() only of a
\* record whose member is the raw data.
C10_PredicatesMatchMember ==
    \A r \in Live :
        /\ inCachedGuild(r)
              => /\ r.member.kind = "GuildMember"
                 /\ r.member.guild = r.guildId
                 /\ r.member.user \in guilds[r.guildId]
        /\ inRawGuild(r) => r.member.kind = "APIGuildMember"

=============================================================================
